---- MODULE Spec2Model ----
(***************************************************************************)
(* Model of src/types/transaction.rs of bitcoincore-rpc_rust_client: the   *)
(* wire types of the JSON-RPC layer and their conversions into the         *)
(* canonical (consensus) transaction types.                                *)
(*                                                                         *)
(* Every operation of the file is a pure function.  The state is the       *)
(* frame of the call that ran last: pc names the operation, the other      *)
(* variables hold its argument and its result.  Drop ends the call.        *)
(*                                                                         *)
(* Option<T> is a sequence of length at most one (None = <<>>,             *)
(* Some(x) = <<x>>).  A String of hex digits is a sequence of one-letter   *)
(* strings, a byte string (Script, Vec<u8>) a sequence of 0..255.          *)
(***************************************************************************)
EXTENDS Integers, Sequences, FiniteSets

VARIABLES pc, wire, ret, tx_input, tx_in, tx_output, tx_out, verbose_raw_tx,
          bitcoin_tx, transaction, raw_tx, signing_result, funding_result,
          funding_options, calls

vars == <<pc, wire, ret, tx_input, tx_in, tx_output, tx_out, verbose_raw_tx,
          bitcoin_tx, transaction, raw_tx, signing_result, funding_result,
          funding_options, calls>>

(***************************************************************************)
(* Bounds of the model.                                                    *)
(***************************************************************************)
MaxWitness == 2
MaxVin == 2
MaxVout == 2
MaxErrors == 2
MaxCalls == 3

(***************************************************************************)
(* Option and the three ways a call ends.                                  *)
(***************************************************************************)
None == <<>>
Some(x) == <<x>>
Ok(v) == [ok |-> v]
Err(e) == [err |-> e]
Panic(m) == [panic |-> m]
IsOk(r) == DOMAIN r = {"ok"}
IsErr(r) == DOMAIN r = {"err"}
IsPanic(r) == DOMAIN r = {"panic"}

SeqsUpTo(S, n) == UNION {[1..k -> S] : k \in 0..n}

(***************************************************************************)
(* std_hex::decode: two hex digits of either case per byte; an odd length  *)
(* or a letter that is no hex digit is an error.                           *)
(***************************************************************************)
HexVal(c) ==
    CASE c = "0" -> 0 [] c = "1" -> 1 [] c = "2" -> 2 [] c = "3" -> 3
      [] c = "4" -> 4 [] c = "5" -> 5 [] c = "6" -> 6 [] c = "7" -> 7
      [] c = "8" -> 8 [] c = "9" -> 9
      [] c = "a" -> 10 [] c = "b" -> 11 [] c = "c" -> 12
      [] c = "d" -> 13 [] c = "e" -> 14 [] c = "f" -> 15
      [] c = "A" -> 10 [] c = "B" -> 11 [] c = "C" -> 12
      [] c = "D" -> 13 [] c = "E" -> 14 [] c = "F" -> 15
      [] OTHER -> -1

HexStringOk(s) ==
    /\ Len(s) % 2 = 0
    /\ \A i \in 1..Len(s) : HexVal(s[i]) >= 0

HexBytes(s) == [i \in 1..(Len(s) \div 2) |-> 16 * HexVal(s[2 * i - 1]) + HexVal(s[2 * i])]

std_hex_decode(s) == IF HexStringOk(s) THEN Ok(HexBytes(s)) ELSE Err("HexDecode")

(***************************************************************************)
(* Values of the wire.                                                     *)
(***************************************************************************)
\* A u32 is the pair <<high, low>> of its 16-bit halves: the integers of the
\* model checker end at 2^31 - 1, below u32::max_value().
U32(n) == <<n \div 65536, n % 65536>>
U32Max == <<65535, 65535>>

\* A TransactionId is 32 bytes; Txid(k) has every byte equal to k.
HashLen == 32
Txid(k) == [i \in 1..HashLen |-> k]

Txids == {Txid(7)}
Vouts == {U32(0), U32(1)}
Sequences == {U32(0), U32Max}
\* ScriptSig { asm, hex }: the one-byte script OP_1.
ScriptSigs == {[asm |-> "1", hex |-> <<81>>]}
\* The coinbase data of the wire, a hex string.
Coinbases == {<<"0", "3", "1", "4", "2", "d", "0", "1", "0", "1", "0", "1">>}
\* Entries of txinwitness: lower case, upper case, and not hex.
WitnessItems == {<<"a", "b">>, <<"0", "F">>, <<"z", "g">>}
Witnesses == SeqsUpTo(WitnessItems, MaxWitness)

Opt(S) == {None} \cup {Some(x) : x \in S}

\* The JSON object of one input, as the node may send it: every key may be
\* missing.
WireInputs ==
    [txid : Opt(Txids), vout : Opt(Vouts), scriptSig : Opt(ScriptSigs),
     coinbase : Opt(Coinbases), sequence : Opt(Sequences),
     txinwitness : Opt(Witnesses)]

\* struct TransactionInput: the fields are public, any value can be built.
TransactionInputs ==
    [txid : Opt(Txids), vout : Opt(Vouts), script_sig : Opt(ScriptSigs),
     coinbase : Opt(Coinbases), sequence : Sequences, witness : Witnesses]

(***************************************************************************)
(* #[derive(Deserialize)] of TransactionInput: an Option field is None     *)
(* when its key is missing, scriptSig and txinwitness are renamed,         *)
(* txinwitness defaults to the empty list, sequence is required.           *)
(***************************************************************************)
\* Mutant: a deserializer that accepts an object only when exactly one of the
\* two cases is populated.
DeserializeTransactionInput_Strict(w) ==
    IF w.sequence = None
    THEN Err("missing field sequence")
    ELSE IF (w.coinbase # None) = (w.txid # None \/ w.vout # None \/ w.scriptSig # None)
    THEN Err("invalid input")
    ELSE Ok([txid |-> w.txid,
             vout |-> w.vout,
             script_sig |-> w.scriptSig,
             coinbase |-> w.coinbase,
             sequence |-> w.sequence[1],
             witness |-> IF w.txinwitness = None THEN <<>> ELSE w.txinwitness[1]])

DeserializeTransactionInput(w) ==
    IF w.sequence = None
    THEN Err("missing field sequence")
    ELSE Ok([txid |-> w.txid,
             vout |-> w.vout,
             script_sig |-> w.scriptSig,
             coinbase |-> w.coinbase,
             sequence |-> w.sequence[1],
             witness |-> IF w.txinwitness = None THEN <<>> ELSE w.txinwitness[1]])

(***************************************************************************)
(* impl TransactionInput: the accessors.                                   *)
(***************************************************************************)
TransactionInput_txid(self) ==
    IF self.txid = None THEN Panic("This is a coinbase transaction.")
    ELSE Ok(self.txid[1])

TransactionInput_vout(self) ==
    IF self.vout = None THEN Panic("This is a coinbase transaction.")
    ELSE Ok(self.vout[1])

TransactionInput_script_sig(self) ==
    IF self.script_sig = None THEN Panic("This is a coinbase transaction.")
    ELSE Ok(self.script_sig[1])

\* Mutant: unwrap_or_default() in place of expect().
TransactionInput_coinbase_Default(self) ==
    IF self.coinbase = None THEN Ok(<<>>)
    ELSE Ok(self.coinbase[1])

TransactionInput_coinbase(self) ==
    IF self.coinbase = None THEN Panic("This is NOT a coinbase transaction.")
    ELSE Ok(self.coinbase[1])

TransactionInput_sequence(self) == Ok(self.sequence)

(***************************************************************************)
(* impl From<TransactionInput> for TxIn.                                   *)
(***************************************************************************)
\* OutPoint::null(): the all-zero transaction id and the maximum index.
OutPointNull == [txid |-> Txid(0), vout |-> U32Max]

\* Script::new(): the empty script.
ScriptNew == <<>>

\* Mutant: vout.unwrap_or(0) in place of vout.expect(..).
PreviousOutputOf_UnwrapOr(tx_input_) ==
    IF tx_input_.txid = None
    THEN Ok(OutPointNull)
    ELSE Ok([txid |-> tx_input_.txid[1],
             vout |-> IF tx_input_.vout = None THEN U32(0) ELSE tx_input_.vout[1]])

PreviousOutputOf(tx_input_) ==
    IF tx_input_.txid = None
    THEN Ok(OutPointNull)
    ELSE IF tx_input_.vout = None
         THEN Panic("BitcoinRPC returned incomplete previous transaction output")
         ELSE Ok([txid |-> tx_input_.txid[1], vout |-> tx_input_.vout[1]])

\* Mutant: the script left empty whatever script_sig holds.
ScriptSigOf_Empty(tx_input_) == ScriptNew

ScriptSigOf(tx_input_) ==
    IF tx_input_.script_sig = None THEN ScriptNew ELSE tx_input_.script_sig[1].hex

\* Mutant: filter_map(|item| decode(item).ok()) in place of map(.. expect ..).
RECURSIVE DecodeValid(_)
DecodeValid(items) ==
    IF items = <<>> THEN <<>>
    ELSE IF IsOk(std_hex_decode(Head(items)))
         THEN <<std_hex_decode(Head(items)).ok>> \o DecodeValid(Tail(items))
         ELSE DecodeValid(Tail(items))

WitnessOf_FilterMap(tx_input_) == Ok(DecodeValid(tx_input_.witness))

WitnessOf(tx_input_) ==
    IF \E i \in 1..Len(tx_input_.witness) : ~IsOk(std_hex_decode(tx_input_.witness[i]))
    THEN Panic("BitcoinRPC returned invalid hex")
    ELSE Ok([i \in 1..Len(tx_input_.witness) |-> std_hex_decode(tx_input_.witness[i]).ok])

TxInFrom(tx_input_) ==
    LET previous_output == PreviousOutputOf(tx_input_)
        witness == WitnessOf(tx_input_)
    IN  IF IsPanic(previous_output) THEN previous_output
        ELSE IF IsPanic(witness) THEN witness
        ELSE Ok([previous_output |-> previous_output.ok,
                 script_sig |-> ScriptSigOf(tx_input_),
                 sequence |-> tx_input_.sequence,
                 witness |-> witness.ok])

(***************************************************************************)
(* struct TransactionOutput { value: f64, n: u32, script_pub_key }.        *)
(*                                                                         *)
(* An f64 amount of the wire is the decimal <<coins, frac>> = coins +      *)
(* frac / 10^9, 0 <= frac < 10^9: nine fractional digits, one more than a  *)
(* satoshi.  A u64 is <<l3, l2, l1, l0>>, its 16-bit limbs, most           *)
(* significant first.                                                      *)
(***************************************************************************)
Coin == 100000000

Amounts ==
    {<<c, f>> : c \in {0, 50}, f \in {0, 1, 4, 6, 10, 69900000, 999999996}}

\* ScriptPubKey { asm, hex, .. } of types::script; only hex is read here.
ScriptPubKeys ==
    {[asm |-> "OP_1", hex |-> <<81>>],
     [asm |-> "OP_RETURN aa", hex |-> <<106, 1, 170>>]}

TransactionOutputs == [value : Amounts, n : Vouts, script_pub_key : ScriptPubKeys]

\* coins * 10^8 + sat as a u64, for coins <= 30000 and sat < 2^31;
\* 10^8 = 1525 * 2^16 + 57600.
U64Of(coins, sat) ==
    LET t0 == (coins * 57600) + (sat % 65536)
        t1 == (coins * 1525) + (sat \div 65536) + (t0 \div 65536)
        t2 == t1 \div 65536
    IN  <<t2 \div 65536, t2 % 65536, t1 % 65536, t0 % 65536>>

\* BitcoinQuantity::from_bitcoin(btc).satoshi() of the bitcoin_quantity crate:
\* (btc * 100_000_000.0).round() as u64.  frac % 10 = 5, a tie that the
\* binary fraction decides, is not among Amounts.
BitcoinQuantity_from_bitcoin(btc) ==
    LET sat == (btc[2] + 5) \div 10
    IN  U64Of(btc[1] + (sat \div Coin), sat % Coin)

\* Mutant: the cast without round().
TxOutFrom_Truncate(tx_output_) ==
    Ok([value |-> U64Of(tx_output_.value[1], tx_output_.value[2] \div 10),
        script_pubkey |-> tx_output_.script_pub_key.hex])

\* impl From<TransactionOutput> for TxOut
TxOutFrom(tx_output_) ==
    Ok([value |-> BitcoinQuantity_from_bitcoin(tx_output_.value),
        script_pubkey |-> tx_output_.script_pub_key.hex])

(***************************************************************************)
(* struct VerboseRawTransaction and impl From<VerboseRawTransaction> for   *)
(* BitcoinTransaction.                                                     *)
(***************************************************************************)
\* The inputs a transaction of the model is made of: the coinbase input of
\* the test should_deserialize_verbose_raw_transaction, a standard input, a
\* standard input with a witness, and one whose witness is not hex.
CoinbaseInput ==
    [txid |-> None, vout |-> None, script_sig |-> None,
     coinbase |-> Some(<<"0", "3", "1", "4", "2", "d", "0", "1", "0", "1", "0", "1">>),
     sequence |-> U32Max, witness |-> <<>>]

StandardInput ==
    [txid |-> Some(Txid(7)), vout |-> Some(U32(1)),
     script_sig |-> Some([asm |-> "1", hex |-> <<81>>]),
     coinbase |-> None, sequence |-> U32Max, witness |-> <<>>]

VinChoices ==
    {CoinbaseInput,
     StandardInput,
     [StandardInput EXCEPT !.script_sig = None, !.witness = <<<<"a", "b">>>>],
     [StandardInput EXCEPT !.witness = <<<<"z", "g">>>>]}

VoutChoices ==
    {[value |-> <<0, 69900000>>, n |-> U32(0),
      script_pub_key |-> [asm |-> "OP_1", hex |-> <<81>>]],
     [value |-> <<50, 0>>, n |-> U32(1),
      script_pub_key |-> [asm |-> "OP_RETURN aa", hex |-> <<106, 1, 170>>]]}

\* The fields that are not part of the transaction itself.
Metadata ==
    {[txid |-> Txid(1), hash |-> "b1", size |-> 184, vsize |-> 157,
      hex |-> <<<<"0", "2">>>>, blockhash |-> Txid(2), confirmations |-> 9,
      time |-> 1525393130, blocktime |-> 1525393130],
     [txid |-> Txid(3), hash |-> "52", size |-> 223, vsize |-> 223,
      hex |-> <<<<>>>>, blockhash |-> Txid(4), confirmations |-> -1,
      time |-> 0, blocktime |-> 1]}

VerboseRawTransactionOf(m, version, locktime, vin, vout) ==
    [txid |-> m.txid, hash |-> m.hash, size |-> m.size, vsize |-> m.vsize,
     version |-> version, locktime |-> locktime, vin |-> vin, vout |-> vout,
     hex |-> m.hex, blockhash |-> m.blockhash, confirmations |-> m.confirmations,
     time |-> m.time, blocktime |-> m.blocktime]

\* vin.into_iter().map(|vin| vin.into()).collect(): the inputs are converted
\* from the first on; a conversion that panics ends the whole call.
RECURSIVE MapTxInFrom(_)
MapTxInFrom(vin) ==
    IF vin = <<>> THEN Ok(<<>>)
    ELSE LET head == TxInFrom(Head(vin))
             rest == MapTxInFrom(Tail(vin))
         IN  IF IsPanic(head) THEN head
             ELSE IF IsPanic(rest) THEN rest
             ELSE Ok(<<head.ok>> \o rest.ok)

\* vout.into_iter().map(|vout| vout.into()).collect()
RECURSIVE MapTxOutFrom(_)
MapTxOutFrom(vout) ==
    IF vout = <<>> THEN <<>>
    ELSE <<TxOutFrom(Head(vout)).ok>> \o MapTxOutFrom(Tail(vout))

\* Mutant: the inputs collected into a set-like list, an input equal to an
\* earlier one dropped.
RECURSIVE Dedup(_)
Dedup(xs) ==
    IF xs = <<>> THEN <<>>
    ELSE LET front == Dedup(SubSeq(xs, 1, Len(xs) - 1))
             last == xs[Len(xs)]
         IN  IF \E k \in 1..Len(front) : front[k] = last THEN front
             ELSE Append(front, last)

BitcoinTransactionFrom_Dedup(verbose_raw_tx_) ==
    LET input == MapTxInFrom(Dedup(verbose_raw_tx_.vin))
    IN  IF IsPanic(input) THEN input
        ELSE Ok([version |-> verbose_raw_tx_.version,
                 lock_time |-> verbose_raw_tx_.locktime,
                 input |-> input.ok,
                 output |-> MapTxOutFrom(verbose_raw_tx_.vout)])

BitcoinTransactionFrom(verbose_raw_tx_) ==
    LET input == MapTxInFrom(verbose_raw_tx_.vin)
    IN  IF IsPanic(input) THEN input
        ELSE Ok([version |-> verbose_raw_tx_.version,
                 lock_time |-> verbose_raw_tx_.locktime,
                 input |-> input.ok,
                 output |-> MapTxOutFrom(verbose_raw_tx_.vout)])

(***************************************************************************)
(* The consensus codec of the bitcoin crate, as this file calls it:        *)
(* bitcoin::consensus::encode::serialize_hex (From<BitcoinTransaction> for *)
(* SerializedRawTransaction) and util::misc::hex_bytes followed by         *)
(* consensus::deserialize (the test                                        *)
(* should_deserialize_serialized_raw_transaction).                         *)
(***************************************************************************)
U16LE(n) == <<n % 256, n \div 256>>
U32LE(u) == U16LE(u[2]) \o U16LE(u[1])
U64LE(u) == U16LE(u[4]) \o U16LE(u[3]) \o U16LE(u[2]) \o U16LE(u[1])

\* VarInt, for the lengths a model value can have (below 2^31).
VarIntBytes(n) ==
    IF n < 253 THEN <<n>>
    ELSE IF n < 65536 THEN <<253>> \o U16LE(n)
    ELSE <<254>> \o U32LE(U32(n))

RECURSIVE Concat(_)
Concat(ss) == IF ss = <<>> THEN <<>> ELSE Head(ss) \o Concat(Tail(ss))

VecBytes(b) == VarIntBytes(Len(b)) \o b

TxInBytes(txin) ==
    txin.previous_output.txid \o U32LE(txin.previous_output.vout)
        \o VecBytes(txin.script_sig) \o U32LE(txin.sequence)

TxOutBytes(txout) == U64LE(txout.value) \o VecBytes(txout.script_pubkey)

WitnessBytes(witness) ==
    VarIntBytes(Len(witness)) \o Concat([k \in 1..Len(witness) |-> VecBytes(witness[k])])

InputsBytes(input) ==
    VarIntBytes(Len(input)) \o Concat([k \in 1..Len(input) |-> TxInBytes(input[k])])

OutputsBytes(output) ==
    VarIntBytes(Len(output)) \o Concat([k \in 1..Len(output) |-> TxOutBytes(output[k])])

\* Transaction::consensus_encode: the witness format (marker 0, flag 1, the
\* witnesses after the outputs) when some input has a witness.
TransactionBytes(tx) ==
    LET have_witness == \E k \in 1..Len(tx.input) : tx.input[k].witness # <<>>
    IN  IF ~have_witness
        THEN U32LE(tx.version) \o InputsBytes(tx.input) \o OutputsBytes(tx.output)
                 \o U32LE(tx.lock_time)
        ELSE U32LE(tx.version) \o <<0, 1>> \o InputsBytes(tx.input)
                 \o OutputsBytes(tx.output)
                 \o Concat([k \in 1..Len(tx.input) |-> WitnessBytes(tx.input[k].witness)])
                 \o U32LE(tx.lock_time)

LowerDigits ==
    <<"0", "1", "2", "3", "4", "5", "6", "7", "8", "9", "a", "b", "c", "d", "e", "f">>

UpperDigits ==
    <<"0", "1", "2", "3", "4", "5", "6", "7", "8", "9", "A", "B", "C", "D", "E", "F">>

HexOf(digits, bytes) ==
    [k \in 1..(2 * Len(bytes)) |->
        IF k % 2 = 1 THEN digits[(bytes[(k + 1) \div 2] \div 16) + 1]
        ELSE digits[(bytes[k \div 2] % 16) + 1]]

\* serialize_hex: the bytes in lower-case hex.
serialize_hex(tx) == HexOf(LowerDigits, TransactionBytes(tx))

\* Mutant: the witness format is never written.
SerializedRawTransactionFrom_NoWitness(tx) ==
    <<HexOf(LowerDigits,
            U32LE(tx.version) \o InputsBytes(tx.input) \o OutputsBytes(tx.output)
                \o U32LE(tx.lock_time))>>

\* impl From<BitcoinTransaction> for SerializedRawTransaction; the tuple
\* struct SerializedRawTransaction(pub String) is the one-tuple <<string>>.
SerializedRawTransactionFrom(tx) == <<serialize_hex(tx)>>

(***************************************************************************)
(* Decoding.  A reader takes the bytes that are left and gives              *)
(* Ok(<<value, bytes left>>) or an error.                                  *)
(***************************************************************************)
Take(b, n) == SubSeq(b, 1, n)
Skip(b, n) == SubSeq(b, n + 1, Len(b))

\* util::misc::hex_bytes: to_digit(16) of each letter, either case.
hex_bytes(s) ==
    IF \E k \in 1..Len(s) : HexVal(s[k]) < 0 THEN Err("UnexpectedHexDigit")
    ELSE IF Len(s) % 2 # 0 THEN Err("hexstring of odd length")
    ELSE Ok(HexBytes(s))

\* The reader F on what the read r gave, or the error of r (the ? of Rust).
\* r is evaluated once, as the element of a set.
Then(r, F(_)) == CHOOSE v \in {IF IsErr(x) THEN x ELSE F(x.ok) : x \in {r}} : TRUE

ReadU8(b) ==
    IF Len(b) < 1 THEN Err("eof") ELSE Ok(<<b[1], Skip(b, 1)>>)

ReadU32(b) ==
    IF Len(b) < 4 THEN Err("eof")
    ELSE Ok(<<<<b[3] + 256 * b[4], b[1] + 256 * b[2]>>, Skip(b, 4)>>)

ReadU64(b) ==
    IF Len(b) < 8 THEN Err("eof")
    ELSE Ok(<<<<b[7] + 256 * b[8], b[5] + 256 * b[6],
                b[3] + 256 * b[4], b[1] + 256 * b[2]>>, Skip(b, 8)>>)

\* VarInt::consensus_decode.  A length written with the prefix 254 or 255 is
\* at least 2^16 when it is minimal, more than any input of the model holds:
\* the read that follows ends in an error, as does a length that is not
\* minimal.
ReadVarInt(b) ==
    IF Len(b) < 1 THEN Err("eof")
    ELSE IF b[1] < 253 THEN Ok(<<b[1], Skip(b, 1)>>)
    ELSE IF b[1] = 253
         THEN IF Len(b) < 3 THEN Err("eof")
              ELSE IF b[2] + 256 * b[3] < 253 THEN Err("non-minimal varint")
              ELSE Ok(<<b[2] + 256 * b[3], Skip(b, 3)>>)
    ELSE Err("eof")

\* Vec<u8>, Script
ReadBytes(b) ==
    Then(ReadVarInt(b), LAMBDA n :
        IF Len(n[2]) < n[1] THEN Err("eof")
        ELSE Ok(<<Take(n[2], n[1]), Skip(n[2], n[1])>>))

\* TxIn::consensus_decode: the witness is read later.
ReadTxIn(b) ==
    IF Len(b) < HashLen THEN Err("eof")
    ELSE Then(ReadU32(Skip(b, HashLen)), LAMBDA vout :
         Then(ReadBytes(vout[2]), LAMBDA script_sig :
         Then(ReadU32(script_sig[2]), LAMBDA sequence :
             Ok(<<[previous_output |-> [txid |-> Take(b, HashLen), vout |-> vout[1]],
                   script_sig |-> script_sig[1],
                   sequence |-> sequence[1],
                   witness |-> <<>>],
                  sequence[2]>>))))

ReadTxOut(b) ==
    Then(ReadU64(b), LAMBDA value :
    Then(ReadBytes(value[2]), LAMBDA script_pubkey :
        Ok(<<[value |-> value[1], script_pubkey |-> script_pubkey[1]],
             script_pubkey[2]>>)))

RECURSIVE ReadTxIns(_, _)
ReadTxIns(n, b) ==
    IF n = 0 THEN Ok(<<<<>>, b>>)
    ELSE Then(ReadTxIn(b), LAMBDA head :
         Then(ReadTxIns(n - 1, head[2]), LAMBDA rest :
             Ok(<<<<head[1]>> \o rest[1], rest[2]>>)))

RECURSIVE ReadTxOuts(_, _)
ReadTxOuts(n, b) ==
    IF n = 0 THEN Ok(<<<<>>, b>>)
    ELSE Then(ReadTxOut(b), LAMBDA head :
         Then(ReadTxOuts(n - 1, head[2]), LAMBDA rest :
             Ok(<<<<head[1]>> \o rest[1], rest[2]>>)))

RECURSIVE ReadItems(_, _)
ReadItems(n, b) ==
    IF n = 0 THEN Ok(<<<<>>, b>>)
    ELSE Then(ReadBytes(b), LAMBDA head :
         Then(ReadItems(n - 1, head[2]), LAMBDA rest :
             Ok(<<<<head[1]>> \o rest[1], rest[2]>>)))

\* Vec<TxIn>, Vec<TxOut>, Vec<Vec<u8>>
ReadInputs(b) == Then(ReadVarInt(b), LAMBDA n : ReadTxIns(n[1], n[2]))

ReadOutputs(b) == Then(ReadVarInt(b), LAMBDA n : ReadTxOuts(n[1], n[2]))

ReadWitness(b) == Then(ReadVarInt(b), LAMBDA n : ReadItems(n[1], n[2]))

\* for txin in input.iter_mut() { txin.witness = Decodable::consensus_decode(d)? }
RECURSIVE ReadWitnesses(_, _)
ReadWitnesses(input, b) ==
    IF input = <<>> THEN Ok(<<<<>>, b>>)
    ELSE Then(ReadWitness(b), LAMBDA head :
         Then(ReadWitnesses(Tail(input), head[2]), LAMBDA rest :
             Ok(<<<<[Head(input) EXCEPT !.witness = head[1]]>> \o rest[1], rest[2]>>)))

\* The transaction after its inputs and outputs: the lock time.
ReadLockTime(version, input, output, b) ==
    Then(ReadU32(b), LAMBDA lock_time :
        Ok(<<[version |-> version, lock_time |-> lock_time[1],
              input |-> input, output |-> output], lock_time[2]>>))

\* The witness format, after the marker 0 and the flag 1.
ReadSegwit(version, b) ==
    Then(ReadInputs(b), LAMBDA input :
    Then(ReadOutputs(input[2]), LAMBDA output :
    Then(ReadWitnesses(input[1], output[2]), LAMBDA witnesses :
        IF /\ witnesses[1] # <<>>
           /\ \A k \in 1..Len(witnesses[1]) : witnesses[1][k].witness = <<>>
        THEN Err("witness flag set but no witnesses present")
        ELSE ReadLockTime(version, witnesses[1], output[1], witnesses[2]))))

\* Transaction::consensus_decode: an empty list of inputs is the marker of
\* the witness format, and the byte after it is the flag.
ReadTransaction(b) ==
    Then(ReadU32(b), LAMBDA version :
    Then(ReadInputs(version[2]), LAMBDA input :
        IF input[1] = <<>>
        THEN Then(ReadU8(input[2]), LAMBDA segwit_flag :
                 IF segwit_flag[1] = 0
                 THEN ReadLockTime(version[1], <<>>, <<>>, segwit_flag[2])
                 ELSE IF segwit_flag[1] = 1
                 THEN ReadSegwit(version[1], segwit_flag[2])
                 ELSE Err("UnsupportedSegwitFlag"))
        ELSE Then(ReadOutputs(input[2]), LAMBDA output :
                 ReadLockTime(version[1], input[1], output[1], output[2]))))

\* consensus::deserialize: the whole input must be read.
deserialize(b) ==
    Then(ReadTransaction(b), LAMBDA rv :
        IF rv[2] # <<>>
        THEN Err("data not consumed entirely when explicitly deserializing")
        ELSE Ok(rv[1]))

\* hex_bytes(tx.0.as_str()) and then consensus::deserialize(&hex_bytes)
DecodeTransaction(raw_tx_) ==
    Then(hex_bytes(raw_tx_[1]), LAMBDA bytes : deserialize(bytes))

(***************************************************************************)
(* The transactions and the JSON strings the codec is run on.              *)
(***************************************************************************)
\* The inputs of the two tests: the coinbase input of
\* should_deserialize_verbose_raw_transaction, without and with its witness
\* of 32 zero bytes, and inputs that spend an output.
CoinbaseTxIn ==
    [previous_output |-> OutPointNull, script_sig |-> <<3, 20, 45, 1, 1, 1>>,
     sequence |-> U32Max, witness |-> <<>>]

StandardTxIn ==
    [previous_output |-> [txid |-> Txid(7), vout |-> U32(1)], script_sig |-> <<81>>,
     sequence |-> U32Max, witness |-> <<>>]

TxInChoices ==
    {CoinbaseTxIn,
     [CoinbaseTxIn EXCEPT !.witness = <<Txid(0)>>],
     StandardTxIn,
     [StandardTxIn EXCEPT !.script_sig = <<>>, !.witness = <<<<171>>>>]}

TxOutChoices ==
    {[value |-> U64Of(0, 6990000), script_pubkey |-> <<81>>],
     [value |-> U64Of(50, 0), script_pubkey |-> <<106, 1, 170>>]}

Transactions ==
    [version : {U32(1), U32(2)}, lock_time : {U32(0), U32Max},
     input : SeqsUpTo(TxInChoices, MaxVin), output : SeqsUpTo(TxOutChoices, MaxVout)]

\* JSON strings: the encoding of a transaction in lower-case and in
\* upper-case hex, a transaction without inputs and outputs in the witness
\* format, and strings that are no encoding: one digit short, one byte long,
\* a letter that is no digit.
HexPayloads ==
    UNION {{HexOf(LowerDigits, TransactionBytes(t)),
            HexOf(UpperDigits, TransactionBytes(t))} : t \in Transactions}
    \cup {Tail(HexOf(LowerDigits, TransactionBytes(t))) :
            t \in {u \in Transactions : u.output = <<>>}}
    \cup {HexOf(LowerDigits, TransactionBytes(t) \o <<0>>) :
            t \in {u \in Transactions : u.output = <<>>}}
    \cup {HexOf(LowerDigits, U32LE(U32(v)) \o <<0, 1, 0, 0>> \o U32LE(U32(0))) : v \in {1, 2}}
    \cup {<<"z", "z">>}

(***************************************************************************)
(* The payload of getrawtransaction (verbose) and #[derive(Deserialize)]   *)
(* of VerboseRawTransaction.  The payload is the one of the test           *)
(* should_deserialize_verbose_raw_transaction: every field describes one   *)
(* transaction, hex is its consensus encoding, a coinbase input is written *)
(* as {coinbase, sequence}, an amount is written in coin units.            *)
(***************************************************************************)
\* The transaction a payload describes; the amounts are <<coins, satoshi>>.
StandardTxIns ==
    {StandardTxIn,
     [StandardTxIn EXCEPT !.script_sig = <<>>, !.witness = <<<<171>>>>]}

CoinbaseTxIns ==
    {CoinbaseTxIn,
     [CoinbaseTxIn EXCEPT !.witness = <<Txid(0)>>]}

NodeTxOuts ==
    {[value |-> <<0, 0>>, script_pubkey |-> <<106, 1, 170>>],
     [value |-> <<50, 1>>, script_pubkey |-> <<81>>]}

NodeTransactions ==
    [version : {U32(2)}, lock_time : {U32(0), U32Max},
     input : {<<i>> : i \in CoinbaseTxIns} \cup (SeqsUpTo(StandardTxIns, MaxVin) \ {<<>>}),
     output : SeqsUpTo(NodeTxOuts, MaxVout)]

\* The transaction of the payload in its binary form.
BinaryOf(nt) ==
    [version |-> nt.version, lock_time |-> nt.lock_time, input |-> nt.input,
     output |-> [k \in 1..Len(nt.output) |->
                    [value |-> U64Of(nt.output[k].value[1], nt.output[k].value[2]),
                     script_pubkey |-> nt.output[k].script_pubkey]]]

\* An entry of "vin": {"coinbase", "sequence"} for the input of a coinbase
\* transaction, {"txid", "vout", "scriptSig", "txinwitness", "sequence"}
\* for any other.
WireInputOf(txin) ==
    IF txin.previous_output = OutPointNull
    THEN [txid |-> None, vout |-> None, scriptSig |-> None,
          coinbase |-> Some(HexOf(LowerDigits, txin.script_sig)),
          sequence |-> Some(txin.sequence), txinwitness |-> None]
    ELSE [txid |-> Some(txin.previous_output.txid),
          vout |-> Some(txin.previous_output.vout),
          scriptSig |-> Some([asm |-> "asm", hex |-> txin.script_sig]),
          coinbase |-> None,
          sequence |-> Some(txin.sequence),
          txinwitness |-> IF txin.witness = <<>> THEN None
                          ELSE Some([k \in 1..Len(txin.witness) |->
                                        HexOf(LowerDigits, txin.witness[k])])]

\* An entry of "vout": {"value", "n", "scriptPubKey"}.
WireOutputOf(o, k) ==
    [value |-> <<o.value[1], o.value[2] * 10>>, n |-> U32(k - 1),
     scriptPubKey |-> [asm |-> "asm", hex |-> o.script_pubkey]]

VerbosePayloadOf(nt, m) ==
    [txid |-> m.txid, hash |-> m.hash, size |-> m.size, vsize |-> m.vsize,
     version |-> nt.version, locktime |-> nt.lock_time,
     vin |-> [k \in 1..Len(nt.input) |-> WireInputOf(nt.input[k])],
     vout |-> [k \in 1..Len(nt.output) |-> WireOutputOf(nt.output[k], k)],
     hex |-> serialize_hex(BinaryOf(nt)),
     blockhash |-> m.blockhash, confirmations |-> m.confirmations,
     time |-> m.time, blocktime |-> m.blocktime]

VerbosePayloads ==
    {VerbosePayloadOf(nt, m) : nt \in NodeTransactions, m \in Metadata}

\* Vec<TransactionInput>: the first entry that fails fails the whole.
RECURSIVE DeserializeVin(_)
DeserializeVin(ws) ==
    IF ws = <<>> THEN Ok(<<>>)
    ELSE LET head == DeserializeTransactionInput(Head(ws))
             rest == DeserializeVin(Tail(ws))
         IN  IF IsErr(head) THEN head
             ELSE IF IsErr(rest) THEN rest
             ELSE Ok(<<head.ok>> \o rest.ok)

\* #[derive(Deserialize)] of TransactionOutput: scriptPubKey is renamed.
DeserializeTransactionOutput(w) ==
    [value |-> w.value, n |-> w.n, script_pub_key |-> w.scriptPubKey]

\* #[derive(Deserialize)] of VerboseRawTransaction
DeserializeVerboseRawTransaction(w) ==
    LET vin == DeserializeVin(w.vin)
    IN  IF IsErr(vin) THEN vin
        ELSE Ok([txid |-> w.txid, hash |-> w.hash, size |-> w.size, vsize |-> w.vsize,
                 version |-> w.version, locktime |-> w.locktime,
                 vin |-> vin.ok,
                 vout |-> [k \in 1..Len(w.vout) |-> DeserializeTransactionOutput(w.vout[k])],
                 hex |-> <<w.hex>>,
                 blockhash |-> w.blockhash, confirmations |-> w.confirmations,
                 time |-> w.time, blocktime |-> w.blocktime])

(***************************************************************************)
(* struct SigningError and struct SigningResult, #[derive(Deserialize)].   *)
(* A key that is missing or null gives None for an Option field and an     *)
(* error for any other field.                                              *)
(***************************************************************************)
\* The entries of "errors" on the wire: one for the output 0 and one for the
\* output 1 of the same transaction, and one that lacks "error".
WireSigningErrors ==
    {[txid |-> Some(Txid(7)), vout |-> Some(U32(0)), scriptSig |-> Some(""),
      sequence |-> Some(U32Max), error |-> Some("Input not found or already spent")],
     [txid |-> Some(Txid(7)), vout |-> Some(U32(1)), scriptSig |-> Some("00"),
      sequence |-> Some(U32(0)), error |-> Some("Operation not valid with the current stack size")],
     [txid |-> Some(Txid(7)), vout |-> Some(U32(1)), scriptSig |-> Some(""),
      sequence |-> Some(U32Max), error |-> None]}

WireSigningResults ==
    [hex : {Some(<<"0", "2">>)}, complete : Opt(BOOLEAN),
     errors : Opt(SeqsUpTo(WireSigningErrors, MaxErrors))]

DeserializeSigningError(w) ==
    IF w.txid = None THEN Err("missing field txid")
    ELSE IF w.vout = None THEN Err("missing field vout")
    ELSE IF w.scriptSig = None THEN Err("missing field scriptSig")
    ELSE IF w.sequence = None THEN Err("missing field sequence")
    ELSE IF w.error = None THEN Err("missing field error")
    ELSE Ok([txid |-> w.txid[1], vout |-> w.vout[1], script_sig |-> w.scriptSig[1],
             sequence |-> w.sequence[1], error |-> w.error[1]])

\* Vec<SigningError>: the first entry that fails fails the whole.
RECURSIVE DeserializeErrors(_)
DeserializeErrors(ws) ==
    IF ws = <<>> THEN Ok(<<>>)
    ELSE LET head == DeserializeSigningError(Head(ws))
             rest == DeserializeErrors(Tail(ws))
         IN  IF IsErr(head) THEN head
             ELSE IF IsErr(rest) THEN rest
             ELSE Ok(<<head.ok>> \o rest.ok)

\* Mutant: #[serde(skip)] on errors.
DeserializeSigningResult_SkipErrors(w) ==
    LET errors == IF w.errors = None THEN Ok(<<>>) ELSE DeserializeErrors(w.errors[1])
    IN  IF IsErr(errors) THEN errors
        ELSE IF w.hex = None THEN Err("missing field hex")
        ELSE IF w.complete = None THEN Err("missing field complete")
        ELSE Ok([hex |-> w.hex[1], complete |-> w.complete[1], errors |-> None])

DeserializeSigningResult(w) ==
    LET errors == IF w.errors = None THEN Ok(<<>>) ELSE DeserializeErrors(w.errors[1])
    IN  IF IsErr(errors) THEN errors
        ELSE IF w.hex = None THEN Err("missing field hex")
        ELSE IF w.complete = None THEN Err("missing field complete")
        ELSE Ok([hex |-> w.hex[1], complete |-> w.complete[1],
                 errors |-> IF w.errors = None THEN None ELSE Some(errors.ok)])

\* struct SigningResult: the fields are public, any value can be built.
SigningErrors ==
    {[txid |-> Txid(7), vout |-> U32(0), script_sig |-> "", sequence |-> U32Max,
      error |-> "Input not found or already spent"],
     [txid |-> Txid(7), vout |-> U32(1), script_sig |-> "00", sequence |-> U32(0),
      error |-> "Operation not valid with the current stack size"]}

SigningResults ==
    [hex : {<<"0", "2">>}, complete : BOOLEAN,
     errors : Opt(SeqsUpTo(SigningErrors, MaxErrors))]

(***************************************************************************)
(* struct FundingResult, #[derive(Deserialize, Serialize)].  changepos is  *)
(* a JSON number: a sign and decimal digits.  It is read into an i32       *)
(* (change_pos), a number out of the range of i32 is an error, and it is   *)
(* written as the decimal digits of the i32.                               *)
(***************************************************************************)
I32Max == 2147483647
I32Min == (-I32Max) - 1

DigitChars == <<"0", "1", "2", "3", "4", "5", "6", "7", "8", "9">>

\* The digits ds after the number acc, which is negative or zero when neg.
RECURSIVE ParseDigits(_, _, _)
ParseDigits(ds, acc, neg) ==
    IF ds = <<>> THEN Ok(acc)
    ELSE LET d == HexVal(Head(ds))
         IN  IF neg
             THEN IF acc < ((I32Min + d) + 9) \div 10
                  THEN Err("invalid value: expected i32")
                  ELSE ParseDigits(Tail(ds), (acc * 10) - d, neg)
             ELSE IF acc > (I32Max - d) \div 10
                  THEN Err("invalid value: expected i32")
                  ELSE ParseDigits(Tail(ds), (acc * 10) + d, neg)

ParseI32(numeral) ==
    IF Head(numeral) = "-" THEN ParseDigits(Tail(numeral), 0, TRUE)
    ELSE ParseDigits(numeral, 0, FALSE)

RECURSIVE NatDigits(_)
NatDigits(n) ==
    IF n < 10 THEN <<DigitChars[n + 1]>>
    ELSE NatDigits(n \div 10) \o <<DigitChars[(n % 10) + 1]>>

\* The digits of -n for n < 0; -n itself is not an i32 when n is I32Min.
RECURSIVE NegDigits(_)
NegDigits(n) ==
    LET d == (10 - (n % 10)) % 10
        q == (n + d) \div 10
    IN  IF q = 0 THEN <<DigitChars[d + 1]>>
        ELSE NegDigits(q) \o <<DigitChars[d + 1]>>

FormatI32(n) == IF n < 0 THEN <<"-">> \o NegDigits(n) ELSE NatDigits(n)

Numerals ==
    {<<"-", "1">>, <<"0">>, <<"1">>, <<"2">>, <<"1", "0">>, <<"-", "1", "0">>,
     <<"2", "1", "4", "7", "4", "8", "3", "6", "4", "7">>,
     <<"2", "1", "4", "7", "4", "8", "3", "6", "4", "8">>,
     <<"-", "2", "1", "4", "7", "4", "8", "3", "6", "4", "8">>,
     <<"-", "2", "1", "4", "7", "4", "8", "3", "6", "4", "9">>}

Fees == {<<0, 0>>, <<0, 226000>>}

WireFundingResults ==
    [hex : {<<"0", "2">>}, fee : Fees, changepos : Opt(Numerals)]

\* Mutant: change_pos read as an unsigned index, -1 taken for 0.
DeserializeFundingResult_Unsigned(w) ==
    IF w.changepos = None THEN Err("missing field changepos")
    ELSE LET n == ParseI32(w.changepos[1])
         IN  IF IsErr(n) THEN n
             ELSE Ok([hex |-> <<w.hex>>, fee |-> w.fee,
                      change_pos |-> IF n.ok < 0 THEN 0 ELSE n.ok])

DeserializeFundingResult(w) ==
    IF w.changepos = None THEN Err("missing field changepos")
    ELSE LET n == ParseI32(w.changepos[1])
         IN  IF IsErr(n) THEN n
             ELSE Ok([hex |-> <<w.hex>>, fee |-> w.fee, change_pos |-> n.ok])

SerializeFundingResult(r) ==
    [hex |-> r.hex[1], fee |-> r.fee, changepos |-> Some(FormatI32(r.change_pos))]

\* struct FundingResult: the fields are public, any i32 can be stored.
FundingResults ==
    [hex : {<<<<"0", "2">>>>}, fee : Fees, change_pos : {I32Min, -1, 0, 1, I32Max}]

(***************************************************************************)
(* struct FundingOptions and impl FundingOptions: new() and the with_*     *)
(* builders, each FundingOptions { its field: Some(argument), ..self }.    *)
(***************************************************************************)
OptionNames ==
    {"change_address", "change_position", "include_watching", "lock_unspents",
     "reserve_change_key", "fee_rate", "subtract_fee_from_outputs"}

Addresses == {"my9XdXbMLZm3v8uqGLuPRKatWjnpXw2boX", "1A6Ei5cRfDJ8jjhwxfzLJph8B9ZEthR9Z"}
ChangePositions == {U32(0), U32(1)}
FeeRates == {U32(1), U32Max}
SubtractFeeFromOutputs == {<<>>, <<U32(0), U32(1)>>}

FundingOptions_new ==
    [change_address |-> None,
     change_position |-> None,
     include_watching |-> None,
     lock_unspents |-> None,
     reserve_change_key |-> None,
     fee_rate |-> None,
     subtract_fee_from_outputs |-> None]

FundingOptions_with_change_address(self, address) ==
    [self EXCEPT !.change_address = Some(address)]

FundingOptions_with_change_position(self, change_position) ==
    [self EXCEPT !.change_position = Some(change_position)]

FundingOptions_with_include_watching(self, include_watching) ==
    [self EXCEPT !.include_watching = Some(include_watching)]

FundingOptions_with_lock_unspents(self, lock_unspents) ==
    [self EXCEPT !.lock_unspents = Some(lock_unspents)]

FundingOptions_with_reserve_change_key(self, reserve_change_key) ==
    [self EXCEPT !.reserve_change_key = Some(reserve_change_key)]

\* Mutant: ..FundingOptions::new() in place of ..self.
FundingOptions_with_fee_rate_FromNew(self, fee_rate) ==
    [FundingOptions_new EXCEPT !.fee_rate = Some(fee_rate)]

FundingOptions_with_fee_rate(self, fee_rate) ==
    [self EXCEPT !.fee_rate = Some(fee_rate)]

FundingOptions_with_subtract_fee_from_outputs(self, subtract_fee_from_outputs) ==
    [self EXCEPT !.subtract_fee_from_outputs = Some(subtract_fee_from_outputs)]

(***************************************************************************)
(* The state machine.                                                      *)
(***************************************************************************)
inputVars == <<tx_input, tx_in>>
outputVars == <<tx_output, tx_out>>
codecVars == <<transaction, raw_tx>>
rpcVars == <<signing_result, funding_result>>
optionVars == <<funding_options, calls>>

Init ==
    /\ pc = "idle"
    /\ wire = None
    /\ ret = None
    /\ tx_input = None
    /\ tx_in = None
    /\ tx_output = None
    /\ tx_out = None
    /\ verbose_raw_tx = None
    /\ bitcoin_tx = None
    /\ transaction = None
    /\ raw_tx = None
    /\ signing_result = None
    /\ funding_result = None
    /\ funding_options = None
    /\ calls = <<>>

\* serde_json::from_value::<TransactionInput>(w)
Deserialize_TransactionInput ==
    /\ pc = "idle"
    /\ \E w \in WireInputs :
        /\ wire' = Some(w)
        /\ ret' = Some(DeserializeTransactionInput(w))
        /\ tx_input' = IF IsOk(DeserializeTransactionInput(w))
                       THEN Some(DeserializeTransactionInput(w).ok)
                       ELSE None
    /\ pc' = "TransactionInput::deserialize"
    /\ UNCHANGED <<tx_in, outputVars, verbose_raw_tx, bitcoin_tx, codecVars, rpcVars, optionVars>>

\* TransactionInput { txid, vout, script_sig, coinbase, sequence, witness }
Build_TransactionInput ==
    /\ pc = "idle"
    /\ \E i \in TransactionInputs : tx_input' = Some(i)
    /\ pc' = "TransactionInput"
    /\ UNCHANGED <<wire, ret, tx_in, outputVars, verbose_raw_tx, bitcoin_tx, codecVars, rpcVars, optionVars>>

HasInput ==
    /\ pc \in {"TransactionInput::deserialize", "TransactionInput"}
    /\ tx_input # None

Call_txid ==
    /\ HasInput
    /\ ret' = Some(TransactionInput_txid(tx_input[1]))
    /\ pc' = "TransactionInput::txid"
    /\ UNCHANGED <<wire, inputVars, outputVars, verbose_raw_tx, bitcoin_tx, codecVars, rpcVars, optionVars>>

Call_vout ==
    /\ HasInput
    /\ ret' = Some(TransactionInput_vout(tx_input[1]))
    /\ pc' = "TransactionInput::vout"
    /\ UNCHANGED <<wire, inputVars, outputVars, verbose_raw_tx, bitcoin_tx, codecVars, rpcVars, optionVars>>

Call_script_sig ==
    /\ HasInput
    /\ ret' = Some(TransactionInput_script_sig(tx_input[1]))
    /\ pc' = "TransactionInput::script_sig"
    /\ UNCHANGED <<wire, inputVars, outputVars, verbose_raw_tx, bitcoin_tx, codecVars, rpcVars, optionVars>>

Call_coinbase ==
    /\ HasInput
    /\ ret' = Some(TransactionInput_coinbase(tx_input[1]))
    /\ pc' = "TransactionInput::coinbase"
    /\ UNCHANGED <<wire, inputVars, outputVars, verbose_raw_tx, bitcoin_tx, codecVars, rpcVars, optionVars>>

Call_sequence ==
    /\ HasInput
    /\ ret' = Some(TransactionInput_sequence(tx_input[1]))
    /\ pc' = "TransactionInput::sequence"
    /\ UNCHANGED <<wire, inputVars, outputVars, verbose_raw_tx, bitcoin_tx, codecVars, rpcVars, optionVars>>

\* TxIn::from(tx_input)
Call_TxInFrom ==
    /\ HasInput
    /\ tx_in' = Some(TxInFrom(tx_input[1]))
    /\ pc' = "TxIn::from"
    /\ UNCHANGED <<wire, ret, tx_input, outputVars, verbose_raw_tx, bitcoin_tx, codecVars, rpcVars, optionVars>>

\* TransactionOutput { value, n, script_pub_key }
Build_TransactionOutput ==
    /\ pc = "idle"
    /\ \E o \in TransactionOutputs : tx_output' = Some(o)
    /\ pc' = "TransactionOutput"
    /\ UNCHANGED <<wire, ret, inputVars, tx_out, verbose_raw_tx, bitcoin_tx, codecVars, rpcVars, optionVars>>

\* TxOut::from(tx_output)
Call_TxOutFrom ==
    /\ pc = "TransactionOutput"
    /\ tx_out' = Some(TxOutFrom(tx_output[1]))
    /\ pc' = "TxOut::from"
    /\ UNCHANGED <<wire, ret, inputVars, tx_output, verbose_raw_tx, bitcoin_tx, codecVars, rpcVars, optionVars>>

\* VerboseRawTransaction { .. }
Build_VerboseRawTransaction ==
    /\ pc = "idle"
    /\ \E m \in Metadata, version \in {U32(1), U32(2)}, locktime \in {U32(0), U32Max},
          vin \in SeqsUpTo(VinChoices, MaxVin), vout \in SeqsUpTo(VoutChoices, MaxVout) :
        verbose_raw_tx' = Some(VerboseRawTransactionOf(m, version, locktime, vin, vout))
    /\ pc' = "VerboseRawTransaction"
    /\ UNCHANGED <<wire, ret, inputVars, outputVars, bitcoin_tx, codecVars, rpcVars, optionVars>>

\* serde_json::from_str::<VerboseRawTransaction>(json)
Deserialize_VerboseRawTransaction ==
    /\ pc = "idle"
    /\ \E w \in VerbosePayloads :
        /\ wire' = Some(w)
        /\ ret' = Some(DeserializeVerboseRawTransaction(w))
        /\ verbose_raw_tx' = IF IsOk(DeserializeVerboseRawTransaction(w))
                             THEN Some(DeserializeVerboseRawTransaction(w).ok)
                             ELSE None
    /\ pc' = "VerboseRawTransaction::deserialize"
    /\ UNCHANGED <<inputVars, outputVars, bitcoin_tx, codecVars, rpcVars, optionVars>>

\* BitcoinTransaction::from(verbose_raw_tx)
Call_BitcoinTransactionFrom ==
    /\ pc \in {"VerboseRawTransaction", "VerboseRawTransaction::deserialize"}
    /\ verbose_raw_tx # None
    /\ bitcoin_tx' = Some(BitcoinTransactionFrom(verbose_raw_tx[1]))
    /\ pc' = "BitcoinTransaction::from"
    /\ UNCHANGED <<wire, ret, inputVars, outputVars, verbose_raw_tx, codecVars, rpcVars, optionVars>>

\* BitcoinTransaction { version, lock_time, input, output }
Build_BitcoinTransaction ==
    /\ pc = "idle"
    /\ \E t \in Transactions : transaction' = Some(t)
    /\ pc' = "BitcoinTransaction"
    /\ UNCHANGED <<wire, ret, inputVars, outputVars, verbose_raw_tx, bitcoin_tx, raw_tx, rpcVars, optionVars>>

\* serde_json::from_str::<SerializedRawTransaction>(json): any string.
Deserialize_SerializedRawTransaction ==
    /\ pc = "idle"
    /\ \E h \in HexPayloads :
        /\ wire' = Some(h)
        /\ raw_tx' = Some(<<h>>)
    /\ pc' = "SerializedRawTransaction::deserialize"
    /\ UNCHANGED <<ret, inputVars, outputVars, verbose_raw_tx, bitcoin_tx, transaction, rpcVars, optionVars>>

\* SerializedRawTransaction::from(tx), of a transaction that was built or of
\* one that was decoded.
Call_SerializedRawTransactionFrom ==
    /\ \/ pc = "BitcoinTransaction"
       \/ pc = "consensus::deserialize" /\ transaction # None
    /\ raw_tx' = Some(SerializedRawTransactionFrom(transaction[1]))
    /\ pc' = "SerializedRawTransaction::from"
    /\ UNCHANGED <<wire, ret, inputVars, outputVars, verbose_raw_tx, bitcoin_tx, transaction, rpcVars, optionVars>>

\* consensus::deserialize(&hex_bytes(raw_tx.0)); a string that came from the
\* wire is decoded into transaction, the encoding of transaction is decoded beside it.
Call_deserialize ==
    /\ pc \in {"SerializedRawTransaction::deserialize", "SerializedRawTransaction::from"}
    /\ ret' = Some(DecodeTransaction(raw_tx[1]))
    /\ transaction' = IF transaction # None THEN transaction
             ELSE IF IsOk(DecodeTransaction(raw_tx[1]))
             THEN Some(DecodeTransaction(raw_tx[1]).ok)
             ELSE None
    /\ pc' = "consensus::deserialize"
    /\ UNCHANGED <<wire, inputVars, outputVars, verbose_raw_tx, bitcoin_tx, raw_tx, rpcVars, optionVars>>

\* serde_json::from_str::<SigningResult>(json)
Deserialize_SigningResult ==
    /\ pc = "idle"
    /\ \E w \in WireSigningResults :
        /\ wire' = Some(w)
        /\ ret' = Some(DeserializeSigningResult(w))
        /\ signing_result' = IF IsOk(DeserializeSigningResult(w))
                             THEN Some(DeserializeSigningResult(w).ok)
                             ELSE None
    /\ pc' = "SigningResult::deserialize"
    /\ UNCHANGED <<inputVars, outputVars, verbose_raw_tx, bitcoin_tx, codecVars,
                   funding_result, optionVars>>

\* SigningResult { hex, complete, errors }
Build_SigningResult ==
    /\ pc = "idle"
    /\ \E r \in SigningResults : signing_result' = Some(r)
    /\ pc' = "SigningResult"
    /\ UNCHANGED <<wire, ret, inputVars, outputVars, verbose_raw_tx, bitcoin_tx,
                   codecVars, funding_result, optionVars>>

\* serde_json::from_str::<FundingResult>(json)
Deserialize_FundingResult ==
    /\ pc = "idle"
    /\ \E w \in WireFundingResults :
        /\ wire' = Some(w)
        /\ ret' = Some(DeserializeFundingResult(w))
        /\ funding_result' = IF IsOk(DeserializeFundingResult(w))
                             THEN Some(DeserializeFundingResult(w).ok)
                             ELSE None
    /\ pc' = "FundingResult::deserialize"
    /\ UNCHANGED <<inputVars, outputVars, verbose_raw_tx, bitcoin_tx, codecVars,
                   signing_result, optionVars>>

\* FundingResult { hex, fee, change_pos }
Build_FundingResult ==
    /\ pc = "idle"
    /\ \E r \in FundingResults : funding_result' = Some(r)
    /\ pc' = "FundingResult"
    /\ UNCHANGED <<wire, ret, inputVars, outputVars, verbose_raw_tx, bitcoin_tx,
                   codecVars, signing_result, optionVars>>

\* serde_json::to_value(&funding_result)
Serialize_FundingResult ==
    /\ pc \in {"FundingResult::deserialize", "FundingResult"}
    /\ funding_result # None
    /\ ret' = Some(SerializeFundingResult(funding_result[1]))
    /\ pc' = "FundingResult::serialize"
    /\ UNCHANGED <<wire, inputVars, outputVars, verbose_raw_tx, bitcoin_tx, codecVars,
                   rpcVars, optionVars>>

\* FundingOptions::new(); calls records the with_* calls made on the value
\* since.
Call_new ==
    /\ pc = "idle"
    /\ funding_options' = Some(FundingOptions_new)
    /\ calls' = <<>>
    /\ pc' = "FundingOptions::new"
    /\ UNCHANGED <<wire, ret, inputVars, outputVars, verbose_raw_tx, bitcoin_tx, codecVars,
                   rpcVars>>

\* The value that new() or a with_* call returned, for the next call.
HasOptions == funding_options # None /\ Len(calls) < MaxCalls

\* funding_options.with_change_address(address)
Call_with_change_address ==
    /\ HasOptions
    /\ \E address \in Addresses :
        /\ funding_options' =
             Some(FundingOptions_with_change_address(funding_options[1], address))
        /\ calls' = Append(calls, [option |-> "change_address", arg |-> address])
    /\ pc' = "FundingOptions::with_change_address"
    /\ UNCHANGED <<wire, ret, inputVars, outputVars, verbose_raw_tx, bitcoin_tx, codecVars,
                   rpcVars>>

\* funding_options.with_change_position(change_position)
Call_with_change_position ==
    /\ HasOptions
    /\ \E change_position \in ChangePositions :
        /\ funding_options' =
             Some(FundingOptions_with_change_position(funding_options[1], change_position))
        /\ calls' = Append(calls, [option |-> "change_position", arg |-> change_position])
    /\ pc' = "FundingOptions::with_change_position"
    /\ UNCHANGED <<wire, ret, inputVars, outputVars, verbose_raw_tx, bitcoin_tx, codecVars,
                   rpcVars>>

\* funding_options.with_include_watching(include_watching)
Call_with_include_watching ==
    /\ HasOptions
    /\ \E include_watching \in BOOLEAN :
        /\ funding_options' =
             Some(FundingOptions_with_include_watching(funding_options[1], include_watching))
        /\ calls' = Append(calls, [option |-> "include_watching", arg |-> include_watching])
    /\ pc' = "FundingOptions::with_include_watching"
    /\ UNCHANGED <<wire, ret, inputVars, outputVars, verbose_raw_tx, bitcoin_tx, codecVars,
                   rpcVars>>

\* funding_options.with_lock_unspents(lock_unspents)
Call_with_lock_unspents ==
    /\ HasOptions
    /\ \E lock_unspents \in BOOLEAN :
        /\ funding_options' =
             Some(FundingOptions_with_lock_unspents(funding_options[1], lock_unspents))
        /\ calls' = Append(calls, [option |-> "lock_unspents", arg |-> lock_unspents])
    /\ pc' = "FundingOptions::with_lock_unspents"
    /\ UNCHANGED <<wire, ret, inputVars, outputVars, verbose_raw_tx, bitcoin_tx, codecVars,
                   rpcVars>>

\* funding_options.with_reserve_change_key(reserve_change_key)
Call_with_reserve_change_key ==
    /\ HasOptions
    /\ \E reserve_change_key \in BOOLEAN :
        /\ funding_options' =
             Some(FundingOptions_with_reserve_change_key(funding_options[1], reserve_change_key))
        /\ calls' = Append(calls, [option |-> "reserve_change_key", arg |-> reserve_change_key])
    /\ pc' = "FundingOptions::with_reserve_change_key"
    /\ UNCHANGED <<wire, ret, inputVars, outputVars, verbose_raw_tx, bitcoin_tx, codecVars,
                   rpcVars>>

\* funding_options.with_fee_rate(fee_rate)
Call_with_fee_rate ==
    /\ HasOptions
    /\ \E fee_rate \in FeeRates :
        /\ funding_options' =
             Some(FundingOptions_with_fee_rate(funding_options[1], fee_rate))
        /\ calls' = Append(calls, [option |-> "fee_rate", arg |-> fee_rate])
    /\ pc' = "FundingOptions::with_fee_rate"
    /\ UNCHANGED <<wire, ret, inputVars, outputVars, verbose_raw_tx, bitcoin_tx, codecVars,
                   rpcVars>>

\* funding_options.with_subtract_fee_from_outputs(subtract_fee_from_outputs)
Call_with_subtract_fee_from_outputs ==
    /\ HasOptions
    /\ \E subtract_fee_from_outputs \in SubtractFeeFromOutputs :
        /\ funding_options' =
             Some(FundingOptions_with_subtract_fee_from_outputs(funding_options[1], subtract_fee_from_outputs))
        /\ calls' = Append(calls, [option |-> "subtract_fee_from_outputs", arg |-> subtract_fee_from_outputs])
    /\ pc' = "FundingOptions::with_subtract_fee_from_outputs"
    /\ UNCHANGED <<wire, ret, inputVars, outputVars, verbose_raw_tx, bitcoin_tx, codecVars,
                   rpcVars>>

\* The values of the call go out of scope.
Drop ==
    /\ pc # "idle"
    /\ pc' = "idle"
    /\ wire' = None
    /\ ret' = None
    /\ tx_input' = None
    /\ tx_in' = None
    /\ tx_output' = None
    /\ tx_out' = None
    /\ verbose_raw_tx' = None
    /\ bitcoin_tx' = None
    /\ transaction' = None
    /\ raw_tx' = None
    /\ signing_result' = None
    /\ funding_result' = None
    /\ funding_options' = None
    /\ calls' = <<>>

Next ==
    \/ Deserialize_TransactionInput
    \/ Build_TransactionInput
    \/ Call_txid
    \/ Call_vout
    \/ Call_script_sig
    \/ Call_coinbase
    \/ Call_sequence
    \/ Call_TxInFrom
    \/ Build_TransactionOutput
    \/ Call_TxOutFrom
    \/ Build_VerboseRawTransaction
    \/ Deserialize_VerboseRawTransaction
    \/ Call_BitcoinTransactionFrom
    \/ Build_BitcoinTransaction
    \/ Deserialize_SerializedRawTransaction
    \/ Call_SerializedRawTransactionFrom
    \/ Call_deserialize
    \/ Deserialize_SigningResult
    \/ Build_SigningResult
    \/ Deserialize_FundingResult
    \/ Build_FundingResult
    \/ Serialize_FundingResult
    \/ Call_new
    \/ Call_with_change_address
    \/ Call_with_change_position
    \/ Call_with_include_watching
    \/ Call_with_lock_unspents
    \/ Call_with_reserve_change_key
    \/ Call_with_fee_rate
    \/ Call_with_subtract_fee_from_outputs
    \/ Drop

Spec == Init /\ [][Next]_vars

(***************************************************************************)
(* The two cases of an input.                                              *)
(***************************************************************************)
IsCoinbaseInput(i) ==
    i.coinbase # None /\ i.txid = None /\ i.vout = None /\ i.script_sig = None

IsStandardInput(i) == i.coinbase = None /\ i.txid # None /\ i.vout # None

ExactlyOneCase(i) == IsCoinbaseInput(i) \/ IsStandardInput(i)

WitnessAllHex(i) == \A k \in 1..Len(i.witness) : HexStringOk(i.witness[k])

Converted == pc = "TxIn::from" /\ tx_input # None /\ tx_in # None

(***************************************************************************)
(* C1.  For a VerboseRawTransaction deserialized from one payload,         *)
(* From<VerboseRawTransaction> gives the transaction that decoding its hex *)
(* field through the binary codec gives, for standard inputs and for a     *)
(* coinbase input.  The code breaks this for a coinbase input: the script  *)
(* of the converted input is empty (C2), the one in hex is the coinbase    *)
(* data.                                                                   *)
(***************************************************************************)
ConvertedFromPayload ==
    pc = "BitcoinTransaction::from" /\ wire # None /\ verbose_raw_tx # None

C1_FromEqualsDecodedHex ==
    ConvertedFromPayload =>
        bitcoin_tx[1] = DecodeTransaction(verbose_raw_tx[1].hex)

(***************************************************************************)
(* C2.  Converting a coinbase input gives the null previous output, the    *)
(* coinbase data bytes as the script, and the same sequence number.        *)
(* The code leaves the script empty: it never reads tx_input.coinbase.     *)
(***************************************************************************)
C2_CoinbaseScriptIsCoinbaseData ==
    (Converted /\ IsCoinbaseInput(tx_input[1]) /\ WitnessAllHex(tx_input[1])) =>
        /\ IsOk(tx_in[1])
        /\ tx_in[1].ok.previous_output = [txid |-> Txid(0), vout |-> U32Max]
        /\ tx_in[1].ok.script_sig = HexBytes(tx_input[1].coinbase[1])
        /\ tx_in[1].ok.sequence = tx_input[1].sequence

(***************************************************************************)
(* C3.  Original: every input that can be constructed has exactly one of   *)
(* the two cases populated.                                                *)
(***************************************************************************)
C3_ExactlyOneCasePopulated ==
    tx_input # None => ExactlyOneCase(tx_input[1])

WireExactlyOneCase(w) ==
    \/ w.coinbase # None /\ w.txid = None /\ w.vout = None /\ w.scriptSig = None
    \/ w.coinbase = None /\ w.txid # None /\ w.vout # None

(***************************************************************************)
(* C3, amended.  Deserializing a wire object fails only when sequence is   *)
(* missing; the value has txid, vout, script_sig and coinbase populated    *)
(* exactly as the object carries the keys, so it has exactly one case      *)
(* populated if and only if the object has; both or neither is accepted.   *)
(***************************************************************************)
C3_CasesAsOnTheWire ==
    pc = "TransactionInput::deserialize" =>
        LET w == wire[1]
            r == ret[1]
        IN  /\ IsOk(r) <=> w.sequence # None
            /\ IsOk(r) =>
                /\ tx_input = Some(r.ok)
                /\ r.ok.txid = w.txid
                /\ r.ok.vout = w.vout
                /\ r.ok.script_sig = w.scriptSig
                /\ r.ok.coinbase = w.coinbase
                /\ ExactlyOneCase(r.ok) <=> WireExactlyOneCase(w)

C3_Witness ==
    /\ pc = "TransactionInput::deserialize"
    /\ IsOk(ret[1])
    /\ wire[1].coinbase # None
    /\ wire[1].txid # None
    /\ tx_input[1].coinbase # None
    /\ tx_input[1].txid # None

C5_InvalidHexIsReturnedError ==
    (Converted /\ ~WitnessAllHex(tx_input[1])) => tx_in[1] = Err("HexDecode")

(***************************************************************************)
(* C5, amended.  Each witness entry is hex-decoded in its position; if any *)
(* entry is not valid hex the conversion panics and produces no input.     *)
(***************************************************************************)
C5_WitnessDecodedOrPanic ==
    Converted =>
        LET i == tx_input[1]
            r == tx_in[1]
        IN  /\ ~WitnessAllHex(i) => IsPanic(r)
            /\ (WitnessAllHex(i) /\ IsOk(PreviousOutputOf(i))) => IsOk(r)
            /\ IsOk(r) =>
                /\ Len(r.ok.witness) = Len(i.witness)
                /\ \A k \in 1..Len(i.witness) :
                    /\ r.ok.witness[k] = HexBytes(i.witness[k])
                    /\ i.witness[k] = <<"a", "b">> => r.ok.witness[k] = <<171>>
                    /\ i.witness[k] = <<"0", "F">> => r.ok.witness[k] = <<15>>

C5_Witness ==
    /\ Converted
    /\ Len(tx_input[1].witness) = 2
    /\ ~HexStringOk(tx_input[1].witness[2])
    /\ tx_in[1] = Panic("BitcoinRPC returned invalid hex")

(***************************************************************************)
(* C6.  Original: the value is the amount times 10^8 rounded to the        *)
(* nearest integer, and an amount that needs more than eight fractional    *)
(* digits makes the conversion fail with PrecisionLoss.                    *)
(***************************************************************************)
NeedsMoreThan8Digits(btc) == btc[2] % 10 # 0

C6_PrecisionLossFails ==
    (pc = "TxOut::from" /\ NeedsMoreThan8Digits(tx_output[1].value)) =>
        tx_out[1] = Err("PrecisionLoss")

(***************************************************************************)
(* C6, amended.  The conversion never fails: the value is the amount times *)
(* 10^8 rounded to the nearest integer, also for an amount that needs more *)
(* than eight fractional digits; 50.0 gives 5_000_000_000 (0x12A05F200)    *)
(* and 0.00000001 gives 1.                                                 *)
(***************************************************************************)
C6_RoundsToNearest ==
    pc = "TxOut::from" =>
        LET btc == tx_output[1].value
            r == tx_out[1]
        IN  /\ IsOk(r)
            /\ \E d \in -4..4 :
                /\ (btc[2] + d) % 10 = 0
                /\ r.ok.value = U64Of(btc[1] + (((btc[2] + d) \div 10) \div Coin),
                                      ((btc[2] + d) \div 10) % Coin)
            /\ btc = <<50, 0>> => r.ok.value = <<0, 1, 10757, 61952>>
            /\ btc = <<0, 10>> => r.ok.value = <<0, 0, 0, 1>>
            /\ btc = <<0, 6>> => r.ok.value = <<0, 0, 0, 1>>
            /\ btc = <<0, 4>> => r.ok.value = <<0, 0, 0, 0>>

C6_Witness ==
    /\ pc = "TxOut::from"
    /\ tx_output[1].value = <<50, 999999996>>
    /\ tx_out[1] = Ok([value |-> <<0, 1, 12283, 54016>>,
                       script_pubkey |-> tx_output[1].script_pub_key.hex])

(***************************************************************************)
(* C7.  The transaction made from a VerboseRawTransaction has its version  *)
(* and lock time, as many inputs and outputs as vin and vout, the i-th     *)
(* being the conversion of the i-th, equal entries included; the other     *)
(* fields do not matter.  (It is made when every input converts.)          *)
(***************************************************************************)
C7_FieldsAndOrder ==
    pc = "BitcoinTransaction::from" =>
        LET v == verbose_raw_tx[1]
            r == bitcoin_tx[1]
        IN  /\ IsOk(r) <=> \A i \in 1..Len(v.vin) : IsOk(TxInFrom(v.vin[i]))
            /\ IsOk(r) =>
                /\ r.ok.version = v.version
                /\ r.ok.lock_time = v.locktime
                /\ Len(r.ok.input) = Len(v.vin)
                /\ Len(r.ok.output) = Len(v.vout)
                /\ \A i \in 1..Len(v.vin) : r.ok.input[i] = TxInFrom(v.vin[i]).ok
                /\ \A i \in 1..Len(v.vout) : r.ok.output[i] = TxOutFrom(v.vout[i]).ok
            /\ \A m \in Metadata :
                r = BitcoinTransactionFrom(
                        VerboseRawTransactionOf(m, v.version, v.locktime, v.vin, v.vout))

C7_Witness ==
    /\ pc = "BitcoinTransaction::from"
    /\ IsOk(bitcoin_tx[1])
    /\ Len(verbose_raw_tx[1].vin) = 2
    /\ verbose_raw_tx[1].vin[1] = verbose_raw_tx[1].vin[2]
    /\ Len(bitcoin_tx[1].ok.input) = 2
    /\ Len(verbose_raw_tx[1].vout) = 2
    /\ verbose_raw_tx[1].vout[1] # verbose_raw_tx[1].vout[2]
    /\ bitcoin_tx[1].ok.output[1].script_pubkey = verbose_raw_tx[1].vout[1].script_pub_key.hex

(***************************************************************************)
(* C8.  Original: decode(encode(t)) = t for every transaction t (here:     *)
(* every t with an input), and encode(decode(h)) = h for every string h    *)
(* that decode accepts.                                                    *)
(***************************************************************************)
EncodedThenDecoded == pc = "consensus::deserialize" /\ wire = None

DecodedThenEncoded == pc = "SerializedRawTransaction::from" /\ wire # None

C8_RoundTrip ==
    /\ (EncodedThenDecoded /\ transaction[1].input # <<>>) => ret[1] = Ok(transaction[1])
    /\ DecodedThenEncoded => raw_tx[1] = <<wire[1]>>

LowerCase(c) ==
    CASE c = "A" -> "a" [] c = "B" -> "b" [] c = "C" -> "c"
      [] c = "D" -> "d" [] c = "E" -> "e" [] c = "F" -> "f"
      [] OTHER -> c

(***************************************************************************)
(* C8, amended.  decode(encode(t)) = t for every transaction t with at     *)
(* least one input; for every string h that decode accepts as a            *)
(* transaction with at least one input, encode(decode(h)) is h with its    *)
(* letters in lower case (h itself when h is in lower case); encode never  *)
(* fails and gives lower-case hex.                                         *)
(***************************************************************************)
C8_RoundTripUpToCase ==
    /\ (EncodedThenDecoded /\ transaction[1].input # <<>>) => ret[1] = Ok(transaction[1])
    /\ (DecodedThenEncoded /\ transaction[1].input # <<>>) =>
        /\ Len(raw_tx[1][1]) = Len(wire[1])
        /\ \A k \in 1..Len(wire[1]) : raw_tx[1][1][k] = LowerCase(wire[1][k])
    /\ pc = "SerializedRawTransaction::from" =>
        /\ raw_tx # None
        /\ Len(raw_tx[1][1]) % 2 = 0
        /\ \A k \in 1..Len(raw_tx[1][1]) :
            \E d \in 1..16 : raw_tx[1][1][k] = LowerDigits[d]

C8_Witness ==
    /\ DecodedThenEncoded
    /\ raw_tx[1] # <<wire[1]>>
    /\ Len(transaction[1].input) = 2
    /\ transaction[1].input[2].witness # <<>>
    /\ DecodeTransaction(raw_tx[1]) = Ok(transaction[1])

(***************************************************************************)
(* C9.  Original: in every SigningResult, complete is true if and only if  *)
(* the errors list is absent or empty.                                     *)
(***************************************************************************)
NoErrors(r) == r.errors = None \/ r.errors[1] = <<>>

C9_CompleteIffNoErrors ==
    signing_result # None => (signing_result[1].complete <=> NoErrors(signing_result[1]))

(***************************************************************************)
(* C9, amended.  A SigningResult carries complete and errors as the wire   *)
(* payload has them: errors is None when the key is absent, otherwise the  *)
(* same entries in the same order with the txid and vout of the payload,   *)
(* so that complete is true if and only if there are no errors exactly     *)
(* when the payload says so.  For a payload with complete false and one    *)
(* error (two inputs, one failing) the result has complete false and a     *)
(* list of length 1 that names the failing input.                          *)
(***************************************************************************)
SameErrors(r, w) ==
    /\ (r.errors = None) = (w.errors = None)
    /\ r.errors # None =>
        /\ Len(r.errors[1]) = Len(w.errors[1])
        /\ \A k \in 1..Len(r.errors[1]) :
            /\ r.errors[1][k].txid = w.errors[1][k].txid[1]
            /\ r.errors[1][k].vout = w.errors[1][k].vout[1]
            /\ r.errors[1][k].script_sig = w.errors[1][k].scriptSig[1]
            /\ r.errors[1][k].sequence = w.errors[1][k].sequence[1]
            /\ r.errors[1][k].error = w.errors[1][k].error[1]

C9_AsOnTheWire ==
    (pc = "SigningResult::deserialize" /\ signing_result # None) =>
        /\ signing_result[1].complete = wire[1].complete[1]
        /\ SameErrors(signing_result[1], wire[1])
        /\ (signing_result[1].complete <=> NoErrors(signing_result[1]))
            <=> (wire[1].complete[1] <=> NoErrors(wire[1]))
        /\ (~wire[1].complete[1] /\ wire[1].errors # None /\ Len(wire[1].errors[1]) = 1) =>
            /\ ~signing_result[1].complete
            /\ Len(signing_result[1].errors[1]) = 1
            /\ signing_result[1].errors[1][1].txid = wire[1].errors[1][1].txid[1]
            /\ signing_result[1].errors[1][1].vout = wire[1].errors[1][1].vout[1]

C9_Witness ==
    /\ pc = "SigningResult::deserialize"
    /\ signing_result # None
    /\ ~signing_result[1].complete
    /\ signing_result[1].errors # None
    /\ Len(signing_result[1].errors[1]) = 1
    /\ signing_result[1].errors[1][1].txid = Txid(7)
    /\ signing_result[1].errors[1][1].vout = U32(1)

(***************************************************************************)
(* C10.  A FundingResult keeps the wire changepos: the payload with        *)
(* changepos -1 gives change_pos -1 (no change output was added), which    *)
(* serializes back to changepos -1 and is not the value that changepos 0   *)
(* gives; every accepted changepos serializes back to itself, and no other *)
(* changepos gives the same FundingResult.                                 *)
(***************************************************************************)
MinusOne == <<"-", "1">>

C10_ChangePosKept ==
    (pc = "FundingResult::serialize" /\ wire # None /\ funding_result # None) =>
        /\ ret[1].changepos = wire[1].changepos
        /\ ret[1].hex = wire[1].hex
        /\ wire[1].changepos = Some(MinusOne) =>
            /\ funding_result[1].change_pos = -1
            /\ DeserializeFundingResult([wire[1] EXCEPT !.changepos = Some(<<"0">>)])
                 # Ok(funding_result[1])
        /\ \A n \in Numerals :
            Some(n) # wire[1].changepos =>
                DeserializeFundingResult([wire[1] EXCEPT !.changepos = Some(n)])
                    # Ok(funding_result[1])

C10_Witness ==
    /\ pc = "FundingResult::serialize"
    /\ wire # None
    /\ wire[1].changepos = Some(MinusOne)
    /\ funding_result # None
    /\ funding_result[1].change_pos = -1
    /\ ret[1].changepos = Some(MinusOne)

(***************************************************************************)
(* C11.  Converting an input with txid and vout copies the previous output *)
(* (txid, vout), the bytes of scriptSig and the sequence number; without   *)
(* scriptSig on the wire the script is the empty script, without           *)
(* txinwitness the witness stack is empty.  An input is produced exactly   *)
(* when every witness entry is hex (C5).                                   *)
(***************************************************************************)
C11_StandardInputCopied ==
    (Converted /\ tx_input[1].txid # None /\ tx_input[1].vout # None) =>
        /\ IsOk(tx_in[1]) <=> WitnessAllHex(tx_input[1])
        /\ IsOk(tx_in[1]) =>
            /\ tx_in[1].ok.previous_output =
                 [txid |-> tx_input[1].txid[1], vout |-> tx_input[1].vout[1]]
            /\ tx_input[1].script_sig # None =>
                 tx_in[1].ok.script_sig = tx_input[1].script_sig[1].hex
            /\ tx_input[1].script_sig = None => tx_in[1].ok.script_sig = <<>>
            /\ tx_in[1].ok.sequence = tx_input[1].sequence
        /\ wire # None =>
            /\ (wire[1].scriptSig # None /\ IsOk(tx_in[1])) =>
                 tx_in[1].ok.script_sig = wire[1].scriptSig[1].hex
            /\ (wire[1].scriptSig = None /\ IsOk(tx_in[1])) =>
                 tx_in[1].ok.script_sig = <<>>
            /\ wire[1].txinwitness = None =>
                 IsOk(tx_in[1]) /\ tx_in[1].ok.witness = <<>>

C11_Witness ==
    /\ Converted
    /\ wire # None
    /\ wire[1].txid = Some(Txid(7))
    /\ wire[1].vout = Some(U32(1))
    /\ wire[1].scriptSig = None
    /\ wire[1].txinwitness = None
    /\ IsOk(tx_in[1])
    /\ tx_in[1].ok.previous_output = [txid |-> Txid(7), vout |-> U32(1)]
    /\ tx_in[1].ok.script_sig = <<>>
    /\ tx_in[1].ok.witness = <<>>

(***************************************************************************)
(* C12.  Converting an input with a txid and without a vout panics         *)
(* ("BitcoinRPC returned incomplete previous transaction output") and      *)
(* gives no input.  An input without a txid gets the null previous output  *)
(* whatever vout, script_sig and coinbase hold; it is converted exactly    *)
(* when every witness entry is hex (C5).                                   *)
(***************************************************************************)
C12_IncompletePreviousOutput ==
    Converted =>
        /\ (tx_input[1].txid # None /\ tx_input[1].vout = None) =>
             tx_in[1] = Panic("BitcoinRPC returned incomplete previous transaction output")
        /\ tx_input[1].txid = None =>
            /\ IsOk(tx_in[1]) <=> WitnessAllHex(tx_input[1])
            /\ IsOk(tx_in[1]) => tx_in[1].ok.previous_output = OutPointNull

C12_Witness ==
    /\ Converted
    /\ tx_input[1].txid # None
    /\ tx_input[1].vout = None
    /\ IsPanic(tx_in[1])

(***************************************************************************)
(* C13.  FundingOptions::new() has the seven options unset, and after any  *)
(* sequence of with_* calls on it every option holds the argument of the   *)
(* last call to its own setter, or is unset when that setter was never     *)
(* called: a setter sets its own option and leaves the other six, in any   *)
(* order of the calls.                                                     *)
(***************************************************************************)
\* The argument of the last call in cs that set the option, if any.
RECURSIVE LastArg(_, _)
LastArg(cs, option) ==
    IF cs = <<>> THEN None
    ELSE IF cs[Len(cs)].option = option THEN Some(cs[Len(cs)].arg)
    ELSE LastArg(SubSeq(cs, 1, Len(cs) - 1), option)

C13_LastCallWins ==
    funding_options # None =>
        /\ DOMAIN funding_options[1] = OptionNames
        /\ \A option \in OptionNames :
            funding_options[1][option] = LastArg(calls, option)

C13_Witness ==
    /\ funding_options # None
    /\ Len(calls) = 3
    /\ calls[1].option = "fee_rate"
    /\ calls[2].option = "lock_unspents"
    /\ calls[3].option = "fee_rate"
    /\ calls[1].arg # calls[3].arg
    /\ funding_options[1].fee_rate = Some(calls[3].arg)
    /\ funding_options[1].lock_unspents = Some(calls[2].arg)
    /\ funding_options[1].change_address = None

====
